---- MODULE Spec2Model ----
(***************************************************************************)
(* Term memory model of liblumen_alloc: the reference-counted process      *)
(* binary (ProcBin handle + ProcBinInner payload, binary/process.rs) and   *)
(* the map term (map.rs).                                                  *)
(*                                                                         *)
(* Spec    : ProcBin handles of shared payloads, operated on concurrently. *)
(*           Every atomic operation on the count is one step.              *)
(* MapSpec : the pure functions of Map applied to bounded inputs.          *)
(***************************************************************************)
EXTENDS Integers, Sequences, FiniteSets

\* ---------------------------------------------------------------- bounds
MaxPayloads == 1        \* payload blocks the system allocator hands out
MaxHandles == 3         \* ProcBin handles ever created
MaxLen == 1             \* longest input slice of from_slice
MaxByte == 1            \* bytes are 0..MaxByte
NumHeaps == 1           \* process heaps (heap 0 is "held by value")
UsizeBits == 8          \* modelled width of usize (AtomicUsize wraps modulo 2^UsizeBits)
MaxInt == 2             \* integer terms are 1..MaxInt
NumAtoms == 1           \* atom terms are numbered 1..NumAtoms
MaxArity == 2           \* tuples in list form have 0..MaxArity elements
MaxListLen == 2         \* list-form inputs of from_list have at most MaxListLen elements
MaxFloat == 1           \* float terms are 1.0 .. MaxFloat.0
MaxHeapAllocs == 3      \* allocations the target heap of a copy can still satisfy

Modulus == 2 ^ UsizeBits

Addrs == 1 .. MaxPayloads
HandleIds == 1 .. MaxHandles
Heaps == 1 .. NumHeaps
Bytes == 0 .. MaxByte
Encodings == {"Raw", "Latin1", "Utf8"}

RECURSIVE SeqsUpTo(_)
SeqsUpTo(n) ==
    IF n = 0 THEN {<< >>}
    ELSE LET shorter == SeqsUpTo(n - 1)
         IN  shorter \cup {Append(s, b) : s \in {t \in shorter : Len(t) = n - 1}, b \in Bytes}

Slices == SeqsUpTo(MaxLen)

\* ---------------------------------------------------------------- state
VARIABLES
    payloads,   \* address -> ProcBinInner block (refc, flags, data) and its allocation state
    handles,    \* handle id -> ProcBin (inner, link), where it lives and the position of the
                \* operation running on it
    vheap,      \* process -> handles registered on its off-heap tracking list
    ev,         \* the step just taken: operation, its arguments and its return value
    ub,         \* TRUE once freed payload memory has been accessed (undefined behaviour)
    mapA, mapB, \* Map operands
    mapOut,     \* result of the last Map operation
    listIn,     \* the term handed to Map::from_list
    theap       \* the heap a map is copied to: its objects and the room left on it

procVars == <<payloads, handles, vheap, ev, ub>>
mapVars == <<mapA, mapB, mapOut, listIn, theap>>
vars == <<payloads, handles, vheap, ev, ub, mapA, mapB, mapOut, listIn, theap>>

\* ------------------------------------------------------ BinaryFlags
\* One-hot encoding classification in the low bits, byte length above them.
FlagBits == 3
FlagSpace == 2 ^ FlagBits

BinaryFlagsNew(encoding) ==
    CASE encoding = "Raw" -> 1
      [] encoding = "Latin1" -> 2
      [] encoding = "Utf8" -> 4

SetSize(flags, len) == flags + len * FlagSpace
GetSize(flags) == flags \div FlagSpace
GetEncodingBits(flags) == flags % FlagSpace

\* ------------------------------------------------------ atomics on refc
FetchAdd(r) == (r + 1) % Modulus
FetchSub(r) == (r + Modulus - 1) % Modulus

\* ------------------------------------------------------ records
NoLayout == [size |-> 0, align |-> 0]
NoPayload ==
    [st |-> "unalloc", refc |-> 0, flags |-> 0, data |-> << >>, frees |-> 0,
     layout |-> NoLayout, freeLayout |-> NoLayout]
NoHandle ==
    [st |-> "none", inner |-> 0, link |-> "none", heap |-> 0, origin |-> "none", src |-> 0,
     fenced |-> FALSE]
NoEv == [op |-> "init", ret |-> "none", h |-> 0, s |-> << >>, enc |-> "none", ord |-> "none"]

Ev(op, ret, h) == [op |-> op, ret |-> ret, h |-> h, s |-> << >>, enc |-> "none", ord |-> "none"]

FreeAddrs == {a \in Addrs : payloads[a].st = "unalloc"}
FreeIds == {n \in HandleIds : handles[n].st = "none"}
\* sys_alloc::alloc returns a block not handed out before; ids are given out in order
NextAddr == CHOOSE a \in FreeAddrs : \A b \in FreeAddrs : a <= b
NextId == CHOOSE n \in FreeIds : \A m \in FreeIds : n <= m

Inner(h) == payloads[handles[h].inner]
PayloadAlive(h) == Inner(h).st = "alive"

\* &self of a running clone_to_process keeps the source handle borrowed
Borrowed(h) ==
    \E n \in HandleIds : handles[n].st \in {"ctp_copied", "ctp_counted"} /\ handles[n].src = h

\* ------------------------------------------------------ Layout
WordBytes == 8

RoundUp(n, align) == ((n + align - 1) \div align) * align
Max(x, y) == IF x >= y THEN x ELSE y

\* Layout::extend: the next field starts at its own alignment
LayoutExtend(l, next) ==
    [size |-> RoundUp(l.size, next.align) + next.size, align |-> Max(l.align, next.align)]

\* Layout::pad_to_align
PadToAlign(l) == [size |-> RoundUp(l.size, l.align), align |-> l.align]

UsizeLayout == [size |-> WordBytes, align |-> WordBytes]
\* BinaryFlags wraps one usize
FlagsLayout == [size |-> WordBytes, align |-> WordBytes]
\* Layout::for_value(s) of a byte slice
SliceLayout(len) == [size |-> len, align |-> 1]

\* ProcBinInner::base_layout
BaseLayout == LayoutExtend(UsizeLayout, FlagsLayout)

\* the layout from_slice hands to sys_alloc::alloc
FromSliceLayout(len) == PadToAlign(LayoutExtend(BaseLayout, SliceLayout(len)))

\* the layout drop_slow hands to sys_alloc::free: `inner` is a `&ProcBinInner`, so
\* Layout::for_value(&inner) is the layout of that reference, a pointer and a length
DropSlowLayout(len) == [size |-> 2 * WordBytes, align |-> WordBytes]

\* ------------------------------------------------------ ProcBin::from_slice
\* from_slice that forgets set_size(len)
FromSliceInnerNoSize(s, encoding) ==
    [st |-> "alive",
     refc |-> 1,
     flags |-> BinaryFlagsNew(encoding),
     data |-> s,
     frees |-> 0,
     layout |-> FromSliceLayout(Len(s)),
     freeLayout |-> NoLayout]

\* What the Ok arm writes into the freshly allocated block.
FromSliceInner(s, encoding) ==
    [st |-> "alive",
     refc |-> 1,
     flags |-> SetSize(BinaryFlagsNew(encoding), Len(s)),
     data |-> s,
     frees |-> 0,
     layout |-> FromSliceLayout(Len(s)),
     freeLayout |-> NoLayout]

FromSliceHandle(a) ==
    [st |-> "live", inner |-> a, link |-> "unlinked", heap |-> 0,
     origin |-> "from_slice", src |-> 0, fenced |-> FALSE]

FromSliceOk(s, encoding) ==
    /\ FreeAddrs # {} /\ FreeIds # {}
    /\ payloads' = [payloads EXCEPT ![NextAddr] = FromSliceInner(s, encoding)]
    /\ handles' = [handles EXCEPT ![NextId] = FromSliceHandle(NextAddr)]
    /\ ev' = [op |-> "from_slice", ret |-> "Ok", h |-> NextId, s |-> s, enc |-> encoding,
              ord |-> "none"]
    /\ UNCHANGED <<vheap, ub>>

\* from_slice that writes the count before it learns that the allocation failed
FromSliceErrPartial(s, encoding) ==
    /\ FreeAddrs # {}
    /\ payloads' = [payloads EXCEPT ![NextAddr] = [NoPayload EXCEPT !.st = "alive", !.refc = 1]]
    /\ ev' = [op |-> "from_slice", ret |-> "Alloc", h |-> 0, s |-> s, enc |-> encoding,
              ord |-> "none"]
    /\ UNCHANGED <<handles, vheap, ub>>

FromSliceErr(s, encoding) ==
    /\ ev' = [op |-> "from_slice", ret |-> "Alloc", h |-> 0, s |-> s, enc |-> encoding,
              ord |-> "none"]
    /\ UNCHANGED <<payloads, handles, vheap, ub>>

FromSlice ==
    /\ ~ub
    /\ \E s \in Slices, encoding \in Encodings :
          \/ FromSliceOk(s, encoding)
          \/ FromSliceErr(s, encoding)
    /\ UNCHANGED mapVars

\* ------------------------------------------------------ Clone for ProcBin
\* clone that copies the receiver's link instead of making a new one
CloneHandleSharedLink(h) ==
    [st |-> "live", inner |-> handles[h].inner, link |-> handles[h].link, heap |-> 0,
     origin |-> "clone", src |-> h, fenced |-> FALSE]

CloneHandle(h) ==
    [st |-> "live", inner |-> handles[h].inner, link |-> "unlinked", heap |-> 0,
     origin |-> "clone", src |-> h, fenced |-> FALSE]

Clone(h) ==
    /\ ~ub
    /\ handles[h].st = "live" /\ PayloadAlive(h)
    /\ FreeIds # {}
    /\ payloads' = [payloads EXCEPT ![handles[h].inner].refc = FetchAdd(@)]
    /\ handles' = [handles EXCEPT ![NextId] = CloneHandle(h)]
    /\ ev' = Ev("clone", "Ok", NextId)
    /\ UNCHANGED <<vheap, ub>>
    /\ UNCHANGED mapVars

\* ------------------------------------------------------ ProcBin::clone_to_heap
CloneToHeapHandle(h, heap, origin, st) ==
    [st |-> st, inner |-> handles[h].inner, link |-> "unlinked", heap |-> heap,
     origin |-> origin, src |-> h, fenced |-> FALSE]

\* The count the payload holds after clone_to_heap has written the new handle.
CloneToHeapRefc(r) == r

CloneToHeapOk(h, heap) ==
    /\ FreeIds # {}
    /\ handles' = [handles EXCEPT ![NextId] = CloneToHeapHandle(h, heap, "clone_to_heap", "live")]
    /\ payloads' = [payloads EXCEPT ![handles[h].inner].refc = CloneToHeapRefc(@)]
    /\ ev' = Ev("clone_to_heap", "Ok", NextId)
    /\ UNCHANGED <<vheap, ub>>

\* heap.alloc_layout(layout)? returns early
CloneToHeapErr(h, heap) ==
    /\ ev' = Ev("clone_to_heap", "Alloc", 0)
    /\ UNCHANGED <<payloads, handles, vheap, ub>>

CloneToHeap(h, heap) ==
    /\ ~ub
    /\ handles[h].st = "live"
    /\ \/ CloneToHeapOk(h, heap)
       \/ CloneToHeapErr(h, heap)
    /\ UNCHANGED mapVars

\* ------------------------------------------------------ ProcBin::clone_to_process
\* self.clone_to_heap(&mut heap).unwrap()
CloneToProcessCopy(h, process) ==
    /\ ~ub
    /\ handles[h].st = "live"
    /\ \/ /\ FreeIds # {}
          /\ handles' = [handles EXCEPT ![NextId] =
                            CloneToHeapHandle(h, process, "clone_to_process", "ctp_copied")]
          /\ payloads' = [payloads EXCEPT ![handles[h].inner].refc = CloneToHeapRefc(@)]
          /\ ev' = Ev("clone_to_process_copy", "none", NextId)
       \/ /\ ev' = Ev("clone_to_process", "panic", 0)
          /\ UNCHANGED <<payloads, handles>>
    /\ UNCHANGED <<vheap, ub>>
    /\ UNCHANGED mapVars

\* clone_to_process that leaves the count to clone_to_heap
CloneToProcessIncSkipped(n) ==
    /\ ~ub
    /\ handles[n].st = "ctp_copied" /\ PayloadAlive(n)
    /\ handles' = [handles EXCEPT ![n].st = "ctp_counted"]
    /\ ev' = Ev("clone_to_process_inc", "none", n)
    /\ UNCHANGED <<payloads, vheap, ub>>
    /\ UNCHANGED mapVars

\* self.inner().refc.fetch_add(1, AcqRel)
CloneToProcessInc(n) ==
    /\ ~ub
    /\ handles[n].st = "ctp_copied" /\ PayloadAlive(n)
    /\ payloads' = [payloads EXCEPT ![handles[n].inner].refc = FetchAdd(@)]
    /\ handles' = [handles EXCEPT ![n].st = "ctp_counted"]
    /\ ev' = Ev("clone_to_process_inc", "none", n)
    /\ UNCHANGED <<vheap, ub>>
    /\ UNCHANGED mapVars

\* Process::virtual_alloc pushes the handle on the process's off-heap list
VirtualAlloc(vh, process, n) == [vh EXCEPT ![process] = @ \cup {n}]

\* process.virtual_alloc(clone); boxed
CloneToProcessRegister(n) ==
    /\ ~ub
    /\ handles[n].st = "ctp_counted"
    /\ vheap' = VirtualAlloc(vheap, handles[n].heap, n)
    /\ handles' = [handles EXCEPT ![n].st = "live", ![n].link = "linked"]
    /\ ev' = Ev("clone_to_process", "Ok", n)
    /\ UNCHANGED <<payloads, ub>>
    /\ UNCHANGED mapVars

\* ------------------------------------------------------ Drop for ProcBin
\* if refc.fetch_sub(1, Release) != 1 { return; }
DropReturnsEarly(prev) == prev # 1

\* fetch_sub in drop, then either return or fence and enter drop_slow
DropDec(h) ==
    /\ ~ub
    /\ handles[h].st = "live" /\ ~Borrowed(h) /\ PayloadAlive(h)
    /\ payloads' = [payloads EXCEPT ![handles[h].inner].refc = FetchSub(@)]
    /\ handles' = [handles EXCEPT
                      ![h].st = IF DropReturnsEarly(Inner(h).refc) THEN "dropped" ELSE "drop_slow",
                      ![h].fenced = ~DropReturnsEarly(Inner(h).refc)]
    /\ ev' = [Ev("drop_dec", "none", h) EXCEPT !.ord = "Release"]
    /\ UNCHANGED <<vheap, ub>>
    /\ UNCHANGED mapVars

\* if refc.fetch_sub(1, Release) == 1 { ... free ... }
DropSlowFrees(prev) == prev = 1

\* drop_slow without its fence before the free
DropSlowDecNoFence(h) ==
    /\ ~ub
    /\ handles[h].st = "drop_slow" /\ PayloadAlive(h)
    /\ payloads' = [payloads EXCEPT ![handles[h].inner].refc = FetchSub(@)]
    /\ handles' = [handles EXCEPT
                      ![h].st = IF DropSlowFrees(Inner(h).refc) THEN "freeing" ELSE "dropped",
                      ![h].fenced = FALSE]
    /\ ev' = [Ev("drop_slow_dec", "none", h) EXCEPT !.ord = "Release"]
    /\ UNCHANGED <<vheap, ub>>
    /\ UNCHANGED mapVars

\* fetch_sub in drop_slow, then either return or fence and go on to free
DropSlowDec(h) ==
    /\ ~ub
    /\ handles[h].st = "drop_slow" /\ PayloadAlive(h)
    /\ payloads' = [payloads EXCEPT ![handles[h].inner].refc = FetchSub(@)]
    /\ handles' = [handles EXCEPT
                      ![h].st = IF DropSlowFrees(Inner(h).refc) THEN "freeing" ELSE "dropped",
                      ![h].fenced = DropSlowFrees(Inner(h).refc)]
    /\ ev' = [Ev("drop_slow_dec", "none", h) EXCEPT !.ord = "Release"]
    /\ UNCHANGED <<vheap, ub>>
    /\ UNCHANGED mapVars

\* sys_alloc::free(inner, layout)
DropSlowFree(h) ==
    /\ ~ub
    /\ handles[h].st = "freeing" /\ PayloadAlive(h)
    /\ payloads' = [payloads EXCEPT
                       ![handles[h].inner].st = "freed",
                       ![handles[h].inner].frees = @ + 1,
                       ![handles[h].inner].freeLayout = DropSlowLayout(Len(Inner(h).data))]
    /\ handles' = [handles EXCEPT ![h].st = "dropped", ![h].fenced = FALSE]
    /\ ev' = Ev("free", "none", h)
    /\ UNCHANGED <<vheap, ub>>
    /\ UNCHANGED mapVars

\* Any access to the count or bytes of a block that was given back to the
\* allocator is undefined behaviour: nothing is known of the program afterwards.
UseAfterFree(h) ==
    /\ ~ub
    /\ handles[h].st \in {"live", "ctp_copied", "drop_slow", "freeing"}
    /\ Inner(h).st = "freed"
    /\ ub' = TRUE
    /\ ev' = Ev("use_after_free", "undefined", h)
    /\ UNCHANGED <<payloads, handles, vheap>>
    /\ UNCHANGED mapVars

\* ------------------------------------------------------ Term
\* Immediate terms used as map keys and values. A term is a tagged word: `at` is
\* the heap object a boxed term refers to (0: none, or an object of the source heap).
IntTerm(i) == [tag |-> "int", v |-> i, at |-> 0]
AtomTerm(i) == [tag |-> "atom", v |-> i, at |-> 0]
Terms == {IntTerm(i) : i \in 1 .. MaxInt} \cup {AtomTerm(i) : i \in 1 .. NumAtoms}

\* Float terms are boxed: the term refers to a heap object holding the value i.0.
FloatTerm(i) == [tag |-> "float", v |-> i, at |-> 0]
FloatTerms == {FloatTerm(i) : i \in 1 .. MaxFloat}
NumTerms == Terms \cup FloatTerms

IsImmediate(t) == t.tag \in {"int", "atom"}

\* usize::cmp
IntCmp(x, y) == IF x < y THEN "Less" ELSE IF x > y THEN "Greater" ELSE "Equal"

\* Term::cmp: numbers sort before atoms, each kind by its own value; an integer
\* and a float are both numbers and are compared by mathematical value
TagRank(t) == IF t.tag \in {"int", "float"} THEN 0 ELSE 1

TermCmp(x, y) ==
    IF TagRank(x) # TagRank(y) THEN IntCmp(TagRank(x), TagRank(y)) ELSE IntCmp(x.v, y.v)

\* Term::eq: the equality that goes with the total order
TermEq(x, y) == TermCmp(x, y) = "Equal"

\* ------------------------------------------------------ Map
\* Map.value : HashMap<Term, Term> is a function from its key set to values.
AllMaps == UNION {[S -> Terms] : S \in SUBSET Terms}

\* Maps whose keys and values may be floats; the keys of a map are pairwise unequal.
UniqueKeys(S) == \A x \in S, y \in S : TermEq(x, y) => x = y
NumMaps == UNION {[S -> NumTerms] : S \in {K \in SUBSET NumTerms : UniqueKeys(K)}}

None == [some |-> FALSE, val |-> << >>]
Some(x) == [some |-> TRUE, val |-> x]

\* HashMap::get: the entry whose stored key equals k
Stored(m, k) == {x \in DOMAIN m : TermEq(x, k)}
Get(m, k) == IF Stored(m, k) = {} THEN None ELSE Some(m[CHOOSE x \in Stored(m, k) : TRUE])

MapLen(m) == Cardinality(DOMAIN m)

\* sort_unstable_by(|key1, key2| key1.cmp(&key2)) over the keys in any order
RECURSIVE SortKeys(_)
SortKeys(S) ==
    IF S = {} THEN << >>
    ELSE LET least == CHOOSE x \in S : \A y \in S : TermCmp(x, y) # "Greater"
         IN  <<least>> \o SortKeys(S \ {least})

SortedKeys(m) == SortKeys(DOMAIN m)

\* Ord for Vec<Term>: lexicographic, a strict prefix is Less
RECURSIVE VecCmp(_, _)
VecCmp(u, w) ==
    IF u = << >> \/ w = << >> THEN IntCmp(Len(u), Len(w))
    ELSE LET o == TermCmp(Head(u), Head(w))
         IN  IF o # "Equal" THEN o ELSE VecCmp(Tail(u), Tail(w))

\* value loop without the break: the last differing value decides
RECURSIVE ValuesCmpNoBreak(_, _, _)
ValuesCmpNoBreak(keys, a, b) ==
    IF keys = << >> THEN "Equal"
    ELSE LET rest == ValuesCmpNoBreak(Tail(keys), a, b)
         IN  IF rest # "Equal" THEN rest ELSE TermCmp(a[Head(keys)], b[Head(keys)])

\* for key in self_key_vec { match self[key].cmp(other[key]) { Equal => continue, o => break } }
RECURSIVE ValuesCmp(_, _, _)
ValuesCmp(keys, a, b) ==
    IF keys = << >> THEN "Equal"
    ELSE IF ~Get(a, Head(keys)).some \/ ~Get(b, Head(keys)).some THEN "panic"
    ELSE LET o == TermCmp(Get(a, Head(keys)).val, Get(b, Head(keys)).val)
         IN  IF o # "Equal" THEN o ELSE ValuesCmp(Tail(keys), a, b)

\* Ord for Map
MapCmp(a, b) ==
    LET lenOrd == IntCmp(MapLen(a), MapLen(b))
    IN  IF lenOrd # "Equal" THEN lenOrd
        ELSE LET keyOrd == VecCmp(SortedKeys(a), SortedKeys(b))
             IN  IF keyOrd # "Equal" THEN keyOrd
                 ELSE ValuesCmp(SortedKeys(a), a, b)

\* self.value.keys(): the keys in the table's own iteration order, which is any order
RECURSIVE Perms(_)
Perms(S) ==
    IF S = {} THEN {<< >>}
    ELSE UNION {{<<x>> \o p : p \in Perms(S \ {x})} : x \in S}

KeysIter(m) == Perms(DOMAIN m)

Range(s) == {s[i] : i \in 1 .. Len(s)}

\* key.hash(state); value.hash(state): the hasher is fed the key, then the value
RECURSIVE HashFeed(_, _)
HashFeed(keys, m) ==
    IF keys = << >> THEN << >>
    ELSE <<Head(keys), m[Head(keys)]>> \o HashFeed(Tail(keys), m)

\* hash that walks the table in its own iteration order
MapHashUnsorted(m, iter) == HashFeed(iter, m)

\* Hash for Map: what the hasher has been fed, given the iteration order of the keys
MapHash(m, iter) == HashFeed(SortKeys(Range(iter)), m)

\* equality that tells a float from the integer of the same value
MapEqExact(a, b) == a = b

\* PartialEq for Map: HashMap::eq, equal lengths and every entry of self found
\* in other with an equal value
MapEq(a, b) ==
    /\ MapLen(a) = MapLen(b)
    /\ \A k \in DOMAIN a : Get(b, k).some /\ TermEq(a[k], Get(b, k).val)

MapOut(op, res) == [op |-> op, res |-> res]

EqCall ==
    /\ mapOut' = MapOut("eq", MapEq(mapA, mapB))
    /\ UNCHANGED <<mapA, mapB, listIn, theap>>
    /\ UNCHANGED procVars

CmpCall ==
    /\ mapOut' = MapOut("cmp", MapCmp(mapA, mapB))
    /\ UNCHANGED <<mapA, mapB, listIn, theap>>
    /\ UNCHANGED procVars

\* ------------------------------------------------------ specification
\* ------------------------------------------------------ Map updates
\* HashMap::insert / HashMap::remove on the clone of self.value: an entry whose
\* key equals k keeps its stored key and takes the new value
HashMapInsert(m, k, v) ==
    IF Stored(m, k) = {} THEN [x \in DOMAIN m \cup {k} |-> IF x = k THEN v ELSE m[x]]
    ELSE [x \in DOMAIN m |-> IF x \in Stored(m, k) THEN v ELSE m[x]]
HashMapRemove(m, k) == [x \in DOMAIN m \ Stored(m, k) |-> m[x]]

IsKey(m, k) == Stored(m, k) # {}

Take(m, k) == IF IsKey(m, k) THEN Some(<<Get(m, k).val, HashMapRemove(m, k)>>) ELSE None

Remove(m, k) == IF IsKey(m, k) THEN Some(HashMapRemove(m, k)) ELSE None

\* update that inserts a missing key
UpdateUpsert(m, k, v) == Some(HashMapInsert(m, k, v))

Update(m, k, v) == IF IsKey(m, k) THEN Some(HashMapInsert(m, k, v)) ELSE None

\* put without the check for an equal value already present
PutAlways(m, k, v) == Some(HashMapInsert(m, k, v))

Put(m, k, v) ==
    IF Get(m, k).some /\ TermEq(Get(m, k).val, v) THEN None
    ELSE Some(HashMapInsert(m, k, v))

OpOut(k, v, out) == [k |-> k, v |-> v, out |-> out]

\* put that writes into the receiver's own table
PutCallInPlace(k, v) ==
    /\ mapOut' = MapOut("put", OpOut(k, v, Put(mapA, k, v)))
    /\ mapA' = HashMapInsert(mapA, k, v)
    /\ UNCHANGED <<mapB, listIn, theap>>
    /\ UNCHANGED procVars

PutCall(k, v) ==
    /\ mapOut' = MapOut("put", OpOut(k, v, Put(mapA, k, v)))
    /\ UNCHANGED <<mapA, mapB, listIn, theap>>
    /\ UNCHANGED procVars

UpdateCall(k, v) ==
    /\ mapOut' = MapOut("update", OpOut(k, v, Update(mapA, k, v)))
    /\ UNCHANGED <<mapA, mapB, listIn, theap>>
    /\ UNCHANGED procVars

RemoveCall(k) ==
    /\ mapOut' = MapOut("remove", OpOut(k, k, Remove(mapA, k)))
    /\ UNCHANGED <<mapA, mapB, listIn, theap>>
    /\ UNCHANGED procVars

TakeCall(k) ==
    /\ mapOut' = MapOut("take", OpOut(k, k, Take(mapA, k)))
    /\ UNCHANGED <<mapA, mapB, listIn, theap>>
    /\ UNCHANGED procVars

\* ------------------------------------------------------ Map::from_list
\* Elements of a list: tuples of any arity and terms that are not tuples.
TupleElems == {[kind |-> "tuple", items |-> its] :
                  its \in UNION {[1 .. n -> Terms] : n \in 0 .. MaxArity}}
TermElems == {[kind |-> "term", items |-> <<x>>] : x \in Terms}
Elems == TupleElems \cup TermElems

\* The argument of from_list: nil, a non-empty list (proper or with an improper
\* tail) or a term that is not a list.
ListForms ==
    {[kind |-> "nil", elems |-> << >>, proper |-> TRUE],
     [kind |-> "other", elems |-> << >>, proper |-> TRUE]}
    \cup {[kind |-> "list", elems |-> es, proper |-> p] :
             es \in UNION {[1 .. n -> Elems] : n \in 1 .. MaxListLen}, p \in BOOLEAN}

NilForm == [kind |-> "nil", elems |-> << >>, proper |-> TRUE]

\* from_list that keeps the first value of a key
RECURSIVE FromListLoopFirstWins(_, _, _)
FromListLoopFirstWins(elems, proper, map) ==
    IF elems = << >> THEN (IF proper THEN Some(map) ELSE None)
    ELSE LET e == Head(elems)
         IN  IF e.kind = "tuple"
             THEN IF Len(e.items) = 2
                  THEN FromListLoopFirstWins(Tail(elems), proper,
                           IF e.items[1] \in DOMAIN map THEN map
                           ELSE HashMapInsert(map, e.items[1], e.items[2]))
                  ELSE None
             ELSE FromListLoopFirstWins(Tail(elems), proper, map)

\* for term_result in cons.into_iter() { ... }: the iterator yields Ok(element)
\* for every element and then Err for an improper tail
RECURSIVE FromListLoop(_, _, _)
FromListLoop(elems, proper, map) ==
    IF elems = << >> THEN (IF proper THEN Some(map) ELSE None)
    ELSE LET e == Head(elems)
         IN  IF e.kind = "tuple"
             THEN IF Len(e.items) = 2
                  THEN FromListLoop(Tail(elems), proper,
                                    HashMapInsert(map, e.items[1], e.items[2]))
                  ELSE None
             ELSE FromListLoop(Tail(elems), proper, map)

FromList(list) ==
    CASE list.kind = "nil" -> Some(<< >>)
      [] list.kind = "list" -> FromListLoop(list.elems, list.proper, << >>)
      [] OTHER -> None

FromListCall ==
    /\ mapOut' = MapOut("from_list", FromList(listIn))
    /\ UNCHANGED <<mapA, mapB, listIn, theap>>
    /\ UNCHANGED procVars

\* ------------------------------------------------------ Map::clone_to_heap
\* A heap: the objects allocated on it, in allocation order, and the number of
\* allocations it can still satisfy.
NoHeap == [left |-> 0, objs |-> << >>]

FloatObj(t) == [kind |-> "float", v |-> t.v, written |-> TRUE, value |-> << >>]
MapBlock == [kind |-> "map", v |-> 0, written |-> FALSE, value |-> << >>]
MapObj(value) == [kind |-> "map", v |-> 0, written |-> TRUE, value |-> value]

\* heap.alloc_layout(layout): Err(Alloc) when the heap has no room, else the new block
AllocLayout(heap, obj) ==
    IF heap.left = 0 THEN [ok |-> FALSE, at |-> 0, heap |-> heap]
    ELSE [ok |-> TRUE, at |-> Len(heap.objs) + 1,
          heap |-> [left |-> heap.left - 1, objs |-> Append(heap.objs, obj)]]

\* Term::clone_to_heap: an immediate is copied bitwise, a boxed term is copied
\* into a new object of the target heap
TermCloneToHeap(t, heap) ==
    IF IsImmediate(t) THEN [ok |-> TRUE, term |-> t, heap |-> heap]
    ELSE LET r == AllocLayout(heap, FloatObj(t))
         IN  [ok |-> r.ok, term |-> [t EXCEPT !.at = r.at], heap |-> r.heap]

\* the loop that drops an entry whose copy failed and goes on
RECURSIVE CloneEntriesSkipFailed(_, _, _, _)
CloneEntriesSkipFailed(iter, m, heap, heap_value) ==
    IF iter = << >> THEN [ok |-> TRUE, value |-> heap_value, heap |-> heap]
    ELSE LET key == TermCloneToHeap(Head(iter), heap)
             val == TermCloneToHeap(m[Head(iter)], key.heap)
         IN  IF ~key.ok \/ ~val.ok
             THEN CloneEntriesSkipFailed(Tail(iter), m, val.heap, heap_value)
             ELSE CloneEntriesSkipFailed(Tail(iter), m, val.heap,
                                         HashMapInsert(heap_value, key.term, val.term))

\* for (entry_key, entry_value) in self_value { clone_to_heap(key)?; clone_to_heap(value)?;
\* heap_value.insert(..) }, the table being walked in the order iter
RECURSIVE CloneEntries(_, _, _, _)
CloneEntries(iter, m, heap, heap_value) ==
    IF iter = << >> THEN [ok |-> TRUE, value |-> heap_value, heap |-> heap]
    ELSE LET key == TermCloneToHeap(Head(iter), heap)
         IN  IF ~key.ok THEN [ok |-> FALSE, value |-> << >>, heap |-> key.heap]
             ELSE LET val == TermCloneToHeap(m[Head(iter)], key.heap)
                  IN  IF ~val.ok THEN [ok |-> FALSE, value |-> << >>, heap |-> val.heap]
                      ELSE CloneEntries(Tail(iter), m, val.heap,
                                        HashMapInsert(heap_value, key.term, val.term))

MapTerm(at) == [tag |-> "map", v |-> 0, at |-> at]

\* Map::clone_to_heap: the container block, then the entries, then the finished
\* map is written into the block
MapCloneToHeap(m, iter, heap) ==
    LET ptr == AllocLayout(heap, MapBlock)
    IN  IF ~ptr.ok THEN [ret |-> None, heap |-> ptr.heap]
        ELSE LET entries == CloneEntries(iter, m, ptr.heap, << >>)
             IN  IF ~entries.ok THEN [ret |-> None, heap |-> entries.heap]
                 ELSE [ret |-> Some(MapTerm(ptr.at)),
                       heap |-> [entries.heap EXCEPT !.objs[ptr.at] = MapObj(entries.value)]]

MapCloneToHeapCall ==
    /\ \E iter \in KeysIter(mapA) :
          LET r == MapCloneToHeap(mapA, iter, theap)
          IN  /\ mapOut' = MapOut("clone_to_heap", r.ret)
              /\ theap' = r.heap
    /\ UNCHANGED <<mapA, mapB, listIn>>
    /\ UNCHANGED procVars

NoHash == [done |-> FALSE, h |-> << >>]
HashesSoFar == IF mapOut.op = "hash" THEN mapOut.res ELSE <<NoHash, NoHash>>

\* hash of the first (which = 1) or second (which = 2) operand
HashCall(which) ==
    /\ \E iter \in KeysIter(IF which = 1 THEN mapA ELSE mapB) :
          mapOut' = MapOut("hash",
                           [HashesSoFar EXCEPT ![which] =
                               [done |-> TRUE,
                                h |-> MapHash(IF which = 1 THEN mapA ELSE mapB, iter)]])
    /\ UNCHANGED <<mapA, mapB, listIn, theap>>
    /\ UNCHANGED procVars

EmptyMap == << >>

ProcInit ==
    /\ payloads = [a \in Addrs |-> NoPayload]
    /\ handles = [n \in HandleIds |-> NoHandle]
    /\ vheap = [p \in Heaps |-> {}]
    /\ ev = NoEv
    /\ ub = FALSE

Init ==
    /\ ProcInit
    /\ mapA = EmptyMap /\ mapB = EmptyMap /\ mapOut = MapOut("none", "none")
    /\ listIn = NilForm
    /\ theap = NoHeap

Next ==
    \/ FromSlice
    \/ \E h \in HandleIds : Clone(h)
    \/ \E h \in HandleIds, heap \in Heaps : CloneToHeap(h, heap)
    \/ \E h \in HandleIds, process \in Heaps : CloneToProcessCopy(h, process)
    \/ \E n \in HandleIds : CloneToProcessInc(n)
    \/ \E n \in HandleIds : CloneToProcessRegister(n)
    \/ \E h \in HandleIds : DropDec(h)
    \/ \E h \in HandleIds : DropSlowDec(h)
    \/ \E h \in HandleIds : DropSlowFree(h)
    \/ \E h \in HandleIds : UseAfterFree(h)

Spec == Init /\ [][Next]_vars

MapInit ==
    /\ ProcInit
    /\ mapA \in AllMaps /\ mapB \in AllMaps
    /\ mapOut = MapOut("none", "none")
    /\ listIn = NilForm
    /\ theap = NoHeap

MapNext ==
    \/ CmpCall

MapSpec == MapInit /\ [][MapNext]_vars

\* Hashing is applied to the pairs of maps that compare Equal.
HashInit ==
    /\ ProcInit
    /\ mapA \in AllMaps
    /\ mapB \in {b \in AllMaps : MapCmp(mapA, b) = "Equal"}
    /\ mapOut = MapOut("none", "none")
    /\ listIn = NilForm
    /\ theap = NoHeap

HashNext ==
    \/ \E which \in 1 .. 2 : HashCall(which)

HashSpec == HashInit /\ [][HashNext]_vars

\* The operations on one map, and from_list.
MapOpInit ==
    /\ ProcInit
    /\ mapA \in AllMaps
    /\ mapB = EmptyMap
    /\ mapOut = MapOut("none", "none")
    /\ listIn = NilForm
    /\ theap = NoHeap

MapOpNext ==
    \/ \E k \in Terms, v \in Terms : PutCall(k, v)
    \/ \E k \in Terms, v \in Terms : UpdateCall(k, v)
    \/ \E k \in Terms : RemoveCall(k)
    \/ \E k \in Terms : TakeCall(k)

MapOpSpec == MapOpInit /\ [][MapOpNext]_vars

\* from_list applied to every bounded list form.
FromListInit ==
    /\ ProcInit
    /\ mapA = EmptyMap /\ mapB = EmptyMap
    /\ mapOut = MapOut("none", "none")
    /\ listIn \in ListForms
    /\ theap = NoHeap

FromListNext ==
    \/ FromListCall

FromListSpec == FromListInit /\ [][FromListNext]_vars

\* Map::clone_to_heap of every bounded map onto a heap with bounded room.
CloneInit ==
    /\ ProcInit
    /\ mapA \in NumMaps
    /\ mapB = EmptyMap
    /\ mapOut = MapOut("none", "none")
    /\ listIn = NilForm
    /\ theap \in {[left |-> n, objs |-> << >>] : n \in 0 .. MaxHeapAllocs}

CloneNext ==
    \/ MapCloneToHeapCall

CloneSpec == CloneInit /\ [][CloneNext]_vars

\* Comparison and equality of every pair of bounded maps with number keys and values.
EqInit ==
    /\ ProcInit
    /\ mapA \in NumMaps /\ mapB \in NumMaps
    /\ mapOut = MapOut("none", "none")
    /\ listIn = NilForm
    /\ theap = NoHeap

EqNext ==
    \/ CmpCall
    \/ EqCall

EqSpec == EqInit /\ [][EqNext]_vars

TypeOK ==
    /\ \A a \in Addrs : payloads[a].refc \in 0 .. Modulus - 1
    /\ \A n \in HandleIds : handles[n].inner \in Addrs \cup {0}
    /\ ub \in BOOLEAN

\* ====================================================== properties
HandlesOf(a) == {n \in HandleIds : handles[n].st # "none" /\ handles[n].inner = a}
LiveHandlesOf(a) == {n \in HandleIds : handles[n].st = "live" /\ handles[n].inner = a}
AllDropped(a) == \A n \in HandlesOf(a) : handles[n].st = "dropped"
OnlyCloned(a) == \A n \in HandlesOf(a) : handles[n].origin \in {"from_slice", "clone"}
RefcOf(ps, hs, n) == ps[hs[n].inner].refc

\* C1: a payload whose handles all come from from_slice and clone is freed
\* exactly once when all of them have been dropped, and is not freed while one
\* of them has not finished its drop.
RefcountConservation ==
    \A a \in Addrs :
        (payloads[a].st # "unalloc" /\ OnlyCloned(a)) =>
            /\ AllDropped(a) => payloads[a].frees = 1
            /\ payloads[a].frees > 0 => AllDropped(a)

\* C2: the count of a payload is at least the number of its live handles.
RefcAtLeastLiveHandles ==
    \A a \in Addrs :
        payloads[a].st = "alive" => payloads[a].refc >= Cardinality(LiveHandlesOf(a))

\* C3: under every interleaving, a payload is not deallocated while a handle
\* that references it is live.
NoUseAfterFree ==
    \A a \in Addrs : payloads[a].st = "freed" => LiveHandlesOf(a) = {}

\* C4: a successful clone_to_heap increments the count by one and writes one
\* new unlinked handle on the target heap that references the source's payload,
\* leaving the payload bytes where they are.
CloneToHeapStep ==
    (ev'.op = "clone_to_heap" /\ ev'.ret = "Ok") =>
        LET n == ev'.h
            src == handles'[n].src
        IN  /\ handles[n].st = "none" /\ handles'[n].st = "live"
            /\ \A m \in HandleIds \ {n} : handles'[m] = handles[m]
            /\ handles'[n].inner = handles[src].inner
            /\ handles'[n].link = "unlinked"
            /\ handles'[n].heap \in Heaps
            /\ RefcOf(payloads', handles', n) = (RefcOf(payloads, handles, src) + 1) % Modulus
            /\ \A a \in Addrs : /\ payloads'[a].data = payloads[a].data
                                /\ payloads'[a].st = payloads[a].st

CloneToHeapIncrements == [][CloneToHeapStep]_vars

\* C5: clone_to_process first writes one new handle of the source's payload on
\* the destination heap, then increments the count by exactly one, and last
\* registers that handle on the destination's off-heap list and returns.
CloneToProcessStep ==
    /\ ev'.op = "clone_to_process_copy" =>
          LET n == ev'.h
          IN  /\ handles[n].st = "none"
              /\ \A m \in HandleIds \ {n} : handles'[m] = handles[m]
              /\ handles'[n].inner = handles[handles'[n].src].inner
              /\ handles'[n].heap \in Heaps
              /\ payloads' = payloads /\ vheap' = vheap
    /\ ev'.op = "clone_to_process_inc" =>
          LET n == ev'.h
          IN  /\ handles[n].st = "ctp_copied"
              /\ RefcOf(payloads', handles, n) = (RefcOf(payloads, handles, n) + 1) % Modulus
              /\ vheap' = vheap
    /\ (ev'.op = "clone_to_process" /\ ev'.ret = "Ok") =>
          LET n == ev'.h
          IN  /\ handles[n].st = "ctp_counted" /\ handles'[n].st = "live"
              /\ payloads' = payloads
              /\ n \notin vheap[handles[n].heap]
              /\ vheap' = [vheap EXCEPT ![handles[n].heap] = @ \cup {n}]
              /\ handles'[n].inner = handles[n].inner

CloneToProcessCounted ==
    \A n \in HandleIds :
        (handles[n].origin = "clone_to_process" /\ handles[n].st \in {"live", "dropped", "drop_slow", "freeing"})
            => n \in vheap[handles[n].heap]

CloneToProcessProtocol == [][CloneToProcessStep]_vars /\ []CloneToProcessCounted

CloneToProcessWitness ==
    /\ ev.op = "clone_to_process" /\ ev.ret = "Ok"
    /\ handles[ev.h].st = "live"
    /\ ev.h \in vheap[handles[ev.h].heap]
    /\ Inner(ev.h).refc = 2

\* C6: clone increments the count by exactly one and returns a new handle of
\* the receiver's payload with an unlinked link of its own; the receiver is
\* left as it was.
CloneStep ==
    ev'.op = "clone" =>
        LET n == ev'.h
            src == handles'[n].src
        IN  /\ handles[n].st = "none" /\ handles'[n].st = "live"
            /\ handles'[n].inner = handles[src].inner
            /\ handles'[n].link = "unlinked"
            /\ handles'[src] = handles[src]
            /\ \A m \in HandleIds \ {n} : handles'[m] = handles[m]
            /\ RefcOf(payloads', handles, src) = (RefcOf(payloads, handles, src) + 1) % Modulus
            /\ payloads' = [payloads EXCEPT ![handles[src].inner].refc = payloads'[handles[src].inner].refc]

CloneIncrementsOnce == [][CloneStep]_vars

CloneWitness ==
    /\ ev.op = "clone"
    /\ handles[handles[ev.h].src].link = "linked"
    /\ handles[ev.h].link = "unlinked"

\* C7: a successful from_slice returns one handle to a newly allocated payload
\* with count 1, the given encoding, size len(s) and bytes s; the size in the
\* flags of every payload is the length of its data and neither ever changes.
FromSliceStep ==
    (ev'.op = "from_slice" /\ ev'.ret = "Ok") =>
        LET n == ev'.h
            a == handles'[n].inner
        IN  /\ handles[n].st = "none" /\ handles'[n].st = "live"
            /\ \A m \in HandleIds \ {n} : handles'[m] = handles[m]
            /\ payloads[a].st = "unalloc" /\ payloads'[a].st = "alive"
            /\ \A b \in Addrs \ {a} : payloads'[b] = payloads[b]
            /\ payloads'[a].refc = 1
            /\ GetEncodingBits(payloads'[a].flags) = BinaryFlagsNew(ev'.enc)
            /\ GetSize(payloads'[a].flags) = Len(ev'.s)
            /\ payloads'[a].data = ev'.s

PayloadImmutable ==
    \A a \in Addrs :
        payloads[a].st # "unalloc" =>
            payloads'[a].flags = payloads[a].flags /\ payloads'[a].data = payloads[a].data

SizeIsDataLen ==
    \A a \in Addrs : payloads[a].st # "unalloc" => GetSize(payloads[a].flags) = Len(payloads[a].data)

FromSliceContract == [][FromSliceStep /\ PayloadImmutable]_vars /\ []SizeIsDataLen

FromSliceWitness ==
    /\ ev.op = "from_slice" /\ ev.ret = "Ok"
    /\ Len(ev.s) > 0 /\ ev.enc = "Utf8"
    /\ Inner(ev.h).data = ev.s

\* C8: a from_slice whose allocation fails returns Alloc and writes nothing:
\* no payload and no handle comes into being.
FromSliceFailStep ==
    (ev'.op = "from_slice" /\ ev'.ret # "Ok") =>
        /\ ev'.ret = "Alloc" /\ ev'.h = 0
        /\ payloads' = payloads
        /\ handles' = handles
        /\ vheap' = vheap

AllocFailureAtomic == [][FromSliceFailStep]_vars

AllocFailureWitness ==
    /\ ev.op = "from_slice" /\ ev.ret = "Alloc"
    /\ Len(ev.s) > 0
    /\ \A a \in Addrs : payloads[a].st = "unalloc"

\* C9: once the source of a clone_to_heap copy has been dropped, the copy still
\* references the same payload, which is not deallocated and holds its bytes.
CopyIndependence ==
    \A n \in HandleIds :
        (/\ handles[n].origin = "clone_to_heap" /\ handles[n].st = "live"
         /\ handles[handles[n].src].st = "dropped")
            => /\ handles[n].inner = handles[handles[n].src].inner
               /\ Inner(n).st = "alive"
               /\ GetSize(Inner(n).flags) = Len(Inner(n).data)

\* C10: Map::cmp is Equal exactly for maps of equal length, equal ascending key
\* sequences and equal values under every key; otherwise the first of length,
\* ascending keys (lexicographically) and values in ascending key order that
\* differs decides.
AscKeys(m) ==
    CHOOSE s \in [1 .. MapLen(m) -> DOMAIN m] :
        \A i \in 1 .. MapLen(m), j \in 1 .. MapLen(m) : i < j => TermCmp(s[i], s[j]) = "Less"

AscValues(m) == [i \in 1 .. MapLen(m) |-> m[AscKeys(m)[i]]]

FirstDiff(u, w) ==
    CHOOSE i \in 1 .. Len(u) : u[i] # w[i] /\ \A j \in 1 .. (i - 1) : u[j] = w[j]

MapOrderLaw(a, b) ==
    IF MapLen(a) # MapLen(b) THEN (IF MapLen(a) < MapLen(b) THEN "Less" ELSE "Greater")
    ELSE IF AscKeys(a) # AscKeys(b)
         THEN TermCmp(AscKeys(a)[FirstDiff(AscKeys(a), AscKeys(b))],
                      AscKeys(b)[FirstDiff(AscKeys(a), AscKeys(b))])
    ELSE IF AscValues(a) # AscValues(b)
         THEN TermCmp(AscValues(a)[FirstDiff(AscValues(a), AscValues(b))],
                      AscValues(b)[FirstDiff(AscValues(a), AscValues(b))])
    ELSE "Equal"

MapsAgree(a, b) ==
    /\ MapLen(a) = MapLen(b)
    /\ AscKeys(a) = AscKeys(b)
    /\ \A k \in DOMAIN a : k \in DOMAIN b /\ a[k] = b[k]

KeyOfRank(m, r) ==
    CHOOSE k \in DOMAIN m : Cardinality({j \in DOMAIN m : TermCmp(j, k) = "Less"}) = r - 1

AscFeed(m) ==
    [i \in 1 .. 2 * MapLen(m) |->
        IF i % 2 = 1 THEN KeyOfRank(m, (i + 1) \div 2) ELSE m[KeyOfRank(m, i \div 2)]]

CopyOnWriteStep ==
    mapOut'.op \in {"put", "update", "remove", "take"} =>
        /\ mapA' = mapA
        /\ MapLen(mapA') = MapLen(mapA)
        /\ \A k \in Terms : Get(mapA', k) = Get(mapA, k) /\ IsKey(mapA', k) = IsKey(mapA, k)

CopyOnWrite == [][CopyOnWriteStep]_vars

CopyOnWriteWitness ==
    /\ mapOut.op = "put"
    /\ mapOut.res.out.some
    /\ MapLen(mapA) = 1
    /\ ~IsKey(mapA, mapOut.res.k)
    /\ MapLen(mapOut.res.out.val) = 2

\* C13: from_list returns None for every argument that is neither nil nor a
\* proper list of 2-tuples.
IsPair(e) == e.kind = "tuple" /\ Len(e.items) = 2

WellFormedList(l) ==
    \/ l.kind = "nil"
    \/ l.kind = "list" /\ l.proper /\ \A i \in 1 .. Len(l.elems) : IsPair(l.elems[i])

FromListRejects ==
    (mapOut.op = "from_list" /\ ~WellFormedList(listIn)) => mapOut.res = None

\* C14: from_list of nil is the empty association; from_list of a proper list
\* of 2-tuples has the first elements as its keys, each mapped to the second
\* element of the last tuple with that key.
FromListAccepts ==
    mapOut.op = "from_list" =>
        /\ listIn.kind = "nil" => mapOut.res = Some(<< >>)
        /\ (listIn.kind = "list" /\ WellFormedList(listIn)) =>
              /\ mapOut.res.some
              /\ DOMAIN mapOut.res.val =
                    {listIn.elems[i].items[1] : i \in 1 .. Len(listIn.elems)}
              /\ \A i \in 1 .. Len(listIn.elems) :
                    (\A j \in (i + 1) .. Len(listIn.elems) :
                        listIn.elems[j].items[1] # listIn.elems[i].items[1])
                    => mapOut.res.val[listIn.elems[i].items[1]] = listIn.elems[i].items[2]

FromListWitness ==
    /\ mapOut.op = "from_list"
    /\ listIn.kind = "list" /\ WellFormedList(listIn)
    /\ Len(listIn.elems) >= 2
    /\ listIn.elems[1].items[1] = listIn.elems[2].items[1]
    /\ listIn.elems[1].items[2] # listIn.elems[2].items[2]
    /\ mapOut.res.some
    /\ mapOut.res.val[listIn.elems[2].items[1]] = listIn.elems[2].items[2]

\* C15 (as claimed): put always returns the receiver's association with k
\* mapped to v.
IsPutOf(r, m, k, v) ==
    /\ DOMAIN r = DOMAIN m \cup {k}
    /\ r[k] = v
    /\ \A x \in DOMAIN m \ {k} : r[x] = m[x]

PutAlwaysSucceeds ==
    mapOut.op = "put" =>
        /\ mapOut.res.out.some
        /\ IsPutOf(mapOut.res.out.val, mapA, mapOut.res.k, mapOut.res.v)

\* C15 (amended): put returns the receiver's association with k mapped to v,
\* except that it returns an absent result when k already maps to a value
\* equal to v.
PutUnlessEqual ==
    mapOut.op = "put" =>
        IF IsKey(mapA, mapOut.res.k) /\ mapA[mapOut.res.k] = mapOut.res.v
        THEN ~mapOut.res.out.some
        ELSE /\ mapOut.res.out.some
             /\ IsPutOf(mapOut.res.out.val, mapA, mapOut.res.k, mapOut.res.v)

PutWitness ==
    /\ mapOut.op = "put"
    /\ IsKey(mapA, mapOut.res.k) /\ mapA[mapOut.res.k] = mapOut.res.v
    /\ ~mapOut.res.out.some

\* C16: remove, update and take return an absent result exactly when the key
\* is missing; otherwise remove returns the association without the key, update
\* the association with the key remapped, take the old value and the
\* association without the key.
IsRemoveOf(r, m, k) ==
    /\ DOMAIN r = DOMAIN m \ {k}
    /\ \A x \in DOMAIN r : r[x] = m[x]

RemoveUpdateTake ==
    mapOut.op \in {"remove", "update", "take"} =>
        LET k == mapOut.res.k
            out == mapOut.res.out
        IN  /\ out.some <=> IsKey(mapA, k)
            /\ (out.some /\ mapOut.op = "remove") => IsRemoveOf(out.val, mapA, k)
            /\ (out.some /\ mapOut.op = "update") =>
                  /\ DOMAIN out.val = DOMAIN mapA
                  /\ IsPutOf(out.val, mapA, k, mapOut.res.v)
            /\ (out.some /\ mapOut.op = "take") =>
                  /\ out.val[1] = mapA[k]
                  /\ IsRemoveOf(out.val[2], mapA, k)

RemoveUpdateTakeWitness ==
    /\ mapOut.op = "take"
    /\ MapLen(mapA) >= 2
    /\ IsKey(mapA, mapOut.res.k)
    /\ mapOut.res.out.some
    /\ MapLen(mapOut.res.out.val[2]) = MapLen(mapA) - 1


\* C17: an allocation failure in a construction or copy operation comes back
\* to the caller as an Alloc result, and the failed operation changes no count.
AllocFailureStep ==
    ev'.ret \in {"Alloc", "panic"} =>
        /\ ev'.ret = "Alloc"
        /\ \A a \in Addrs : payloads'[a].refc = payloads[a].refc

AllocFailuresPropagate == [][AllocFailureStep]_vars

\* C18: a drop decrements the count once and never below zero; it goes on only
\* when that decrement left zero, and then to the deallocation.
DestructionStep ==
    /\ ev'.op = "drop_dec" =>
          /\ RefcOf(payloads, handles, ev'.h) > 0
          /\ RefcOf(payloads', handles, ev'.h) = RefcOf(payloads, handles, ev'.h) - 1
          /\ RefcOf(payloads', handles, ev'.h) # 0 => handles'[ev'.h].st = "dropped"
    /\ ev'.op = "drop_slow_dec" =>
          RefcOf(payloads', handles, ev'.h) = RefcOf(payloads, handles, ev'.h)
    /\ ev'.op = "free" => RefcOf(payloads, handles, ev'.h) = 0

DestructionProtocol == [][DestructionStep]_vars

\* C19: every decrement of a drop is release-ordered; a decrement that leaves
\* zero is followed by an acquire fence, and the deallocation happens only after
\* an acquire fence that follows the last decrement of the same drop.
FenceStep ==
    /\ ev'.op \in {"drop_dec", "drop_slow_dec"} =>
          /\ ev'.ord = "Release"
          /\ RefcOf(payloads', handles, ev'.h) = 0 => handles'[ev'.h].fenced
    /\ ev'.op = "free" => handles[ev'.h].fenced

FenceBeforeFree == [][FenceStep]_vars

FenceWitness ==
    /\ ev.op = "free"
    /\ Inner(ev.h).st = "freed"
    /\ Inner(ev.h).frees = 1

\* C20: a payload is deallocated with the layout it was allocated with, the
\* padded layout of count, flags and its data bytes.
PaddedSize(len) ==
    CHOOSE n \in (2 * WordBytes + len) .. (3 * WordBytes + len) :
        n % WordBytes = 0 /\ n - WordBytes < 2 * WordBytes + len

DeallocLayoutMatches ==
    \A a \in Addrs :
        payloads[a].st = "freed" =>
            /\ payloads[a].layout = [size |-> PaddedSize(Len(payloads[a].data)), align |-> WordBytes]
            /\ payloads[a].freeLayout = payloads[a].layout



\* C21: Map::clone_to_heap allocates the container block on the target heap
\* before any child; it returns a map term exactly when the heap has room for the
\* container and every boxed key and value, and otherwise returns the allocation
\* failure and leaves what it allocated behind (the container block unwritten);
\* the returned map has as many entries as the source, each entry the copy of
\* the key and of the value of exactly one source entry.
BoxedChildren(m) ==
    Cardinality({k \in DOMAIN m : ~IsImmediate(k)})
        + Cardinality({k \in DOMAIN m : ~IsImmediate(m[k])})

AllocsNeeded(m) == 1 + BoxedChildren(m)

IsCopyOf(c, t, heap, first) ==
    /\ c.tag = t.tag /\ c.v = t.v
    /\ IF IsImmediate(t) THEN c = t
       ELSE /\ c.at > first /\ c.at <= Len(heap.objs)
            /\ heap.objs[c.at] = FloatObj(t)

IsEntryCopy(kc, value, k, m, heap, first) ==
    IsCopyOf(kc, k, heap, first) /\ IsCopyOf(value[kc], m[k], heap, first)

MapCloneStep ==
    LET first == Len(theap.objs) + 1
        new == Len(theap'.objs) - Len(theap.objs)
    IN  mapOut'.op = "clone_to_heap" =>
          /\ SubSeq(theap'.objs, 1, Len(theap.objs)) = theap.objs
          /\ theap'.left = theap.left - new
          /\ new > 0 => theap'.objs[first].kind = "map"
          /\ mapOut'.res.some <=> theap.left >= AllocsNeeded(mapA)
          /\ ~mapOut'.res.some =>
                /\ new = theap.left
                /\ \A i \in first .. Len(theap'.objs) :
                      theap'.objs[i].kind = "map" => ~theap'.objs[i].written
          /\ mapOut'.res.some =>
                /\ mapOut'.res.val = MapTerm(first)
                /\ new = AllocsNeeded(mapA)
                /\ theap'.objs[first].written
                /\ LET value == theap'.objs[first].value
                   IN  /\ MapLen(value) = MapLen(mapA)
                       /\ \A kc \in DOMAIN value :
                             Cardinality({k \in DOMAIN mapA :
                                 IsEntryCopy(kc, value, k, mapA, theap', first)}) = 1
                       /\ \A k \in DOMAIN mapA :
                             Cardinality({kc \in DOMAIN value :
                                 IsEntryCopy(kc, value, k, mapA, theap', first)}) = 1

MapCloneToHeapCopies == [][MapCloneStep]_vars

MapCloneWitness ==
    /\ mapOut.op = "clone_to_heap" /\ mapOut.res.some
    /\ MapLen(mapA) >= 2
    /\ BoxedChildren(mapA) >= 2
    /\ \E k \in DOMAIN mapA : ~IsImmediate(k)

MapCloneFailureWitness ==
    /\ mapOut.op = "clone_to_heap" /\ ~mapOut.res.some
    /\ Len(theap.objs) >= 2



\* C22: in the key order of Map::cmp an integer key sorts strictly below the
\* float key of the same value, so two maps that differ only in having the key i
\* or the key i.0 do not compare Equal.
DiffersInKeyOnly(a, b, i) ==
    /\ IntTerm(i) \in DOMAIN a
    /\ DOMAIN b = (DOMAIN a \ {IntTerm(i)}) \cup {FloatTerm(i)}
    /\ b[FloatTerm(i)] = a[IntTerm(i)]
    /\ \A k \in DOMAIN a \ {IntTerm(i)} : b[k] = a[k]

Reverse(o) == IF o = "Less" THEN "Greater" ELSE IF o = "Greater" THEN "Less" ELSE o

====
